---- MODULE Spec2Model ----
(***************************************************************************)
(* A model of solaris/preproc/image.py: the Image class and the pipeline   *)
(* segments that load, save, select, merge and measure images.             *)
(*                                                                         *)
(* Python objects are tagged records (field t is the runtime type).  Image *)
(* instances live in `heap' and are named by their address; metadata       *)
(* mappings live in `dicts' and are named by their address, so two Images  *)
(* may hold the same mapping.  numpy arrays are immutable values here: no  *)
(* statement of image.py writes into an existing array.                    *)
(***************************************************************************)
EXTENDS Integers, Sequences, FiniteSets, TLC

VARIABLES heap, dicts, disk, log, pc, args, ret

vars == <<heap, dicts, disk, log, pc, args, ret>>

(***************************************************************************)
(* Bounds of the model.                                                    *)
(***************************************************************************)
MaxBands == 3
MaxRows == 2
MaxCols == 2
MaxImages == 2
MaxSelect == 3
MaxProjLen == 2
MaxMutations == 3

(***************************************************************************)
(* Python values.                                                          *)
(***************************************************************************)
None == [t |-> "None"]
Str(s) == [t |-> "str", s |-> s]
NpStr(s) == [t |-> "np.str_", s |-> s]
PyInt(v) == [t |-> "int", v |-> v]
PyBool(v) == [t |-> "bool", v |-> v]
DictRef(n) == [t |-> "dict", ref |-> n]
\* An argument the caller leaves out, so that the default applies.
Omitted == [t |-> "omitted"]
List(items) == [t |-> "list", items |-> items]
ImageRef(n) == [t |-> "Image", ref |-> n]
DatasetRef(p) == [t |-> "Dataset", path |-> p]
Exception(msg) == [t |-> "Exception", msg |-> msg]

IsException(v) == v.t = "Exception"

\* The state an operation runs in and leaves behind, with its return value.
Machine(h, d, k, l) == [heap |-> h, dicts |-> d, disk |-> k, log |-> l]
Result(m, v) == [m |-> m, ret |-> v]

(***************************************************************************)
(* numpy arrays: a dtype, a shape and the elements, indexed from zero.     *)
(***************************************************************************)
Indices(shape) ==
    IF Len(shape) = 3
    THEN {<<b, r, c>> : b \in 0..(shape[1] - 1), r \in 0..(shape[2] - 1),
                        c \in 0..(shape[3] - 1)}
    ELSE {<<r, c>> : r \in 0..(shape[1] - 1), c \in 0..(shape[2] - 1)}

Array(dtype, shape, px) ==
    [t |-> "ndarray", dtype |-> dtype, shape |-> shape, px |-> px]

ndim(a) == Len(a.shape)

\* np.expand_dims(data, axis=0)
expand_dims(a) ==
    LET shape == <<1>> \o a.shape
    IN  Array(a.dtype, shape, [i \in Indices(shape) |-> a.px[Tail(i)]])

\* numpy's result type for two of the dtypes the model uses.
promote_types(d1, d2) ==
    IF d1 = d2 THEN d1
    ELSE IF "float64" \in {d1, d2} THEN "float64"
    ELSE IF {d1, d2} = {"int64", "float32"} THEN "float64"
    ELSE IF "float32" \in {d1, d2} THEN "float32"
    ELSE "int64"

\* A Python index into an axis of length n: negative indices count from the
\* end; -1 stands for an index out of range.
NormIndex(k, n) ==
    IF k >= 0 /\ k < n THEN k
    ELSE IF k < 0 /\ k >= -n THEN k + n
    ELSE -1

\* TakeBands as a slice of the first len(bands) bands would give it.
TakeBandsInPlaceOrder(a, bands) ==
    IF ndim(a) # 3
    THEN Exception("IndexError")
    ELSE IF \E i \in 1..Len(bands) : NormIndex(bands[i], a.shape[1]) = -1
    THEN Exception("IndexError")
    ELSE LET shape == <<Len(bands), a.shape[2], a.shape[3]>>
         IN  Array(a.dtype, shape,
                   [i \in Indices(shape) |->
                       a.px[<<i[1] % a.shape[1], i[2], i[3]>>]])

\* data[bands, :, :] for a list of integers (numpy's integer-array indexing):
\* a new array, its band i being band bands[i] of data.
TakeBands(a, bands) ==
    IF ndim(a) # 3
    THEN Exception("IndexError")
    ELSE IF \E i \in 1..Len(bands) : NormIndex(bands[i], a.shape[1]) = -1
    THEN Exception("IndexError")
    ELSE LET shape == <<Len(bands), a.shape[2], a.shape[3]>>
         IN  Array(a.dtype, shape,
                   [i \in Indices(shape) |->
                       a.px[<<NormIndex(bands[i[1] + 1], a.shape[1]),
                              i[2], i[3]>>]])

RECURSIVE SumBands(_)
SumBands(arrays) ==
    IF arrays = <<>> THEN 0
    ELSE arrays[1].shape[1] + SumBands(Tail(arrays))

RECURSIVE PromoteAll(_)
PromoteAll(arrays) ==
    IF Len(arrays) = 1 THEN arrays[1].dtype
    ELSE promote_types(arrays[1].dtype, PromoteAll(Tail(arrays)))

\* The input array and the band within it that band b of the concatenation
\* comes from.
RECURSIVE Locate(_, _, _)
Locate(arrays, k, b) ==
    IF b < arrays[k].shape[1] THEN <<k, b>>
    ELSE Locate(arrays, k + 1, b - arrays[k].shape[1])

\* np.concatenate(datalist, axis=0)
concatenate(arrays) ==
    IF arrays = <<>>
    THEN Exception("ValueError")
    ELSE IF \E k \in 1..Len(arrays) :
                \/ ndim(arrays[k]) # ndim(arrays[1])
                \/ Tail(arrays[k].shape) # Tail(arrays[1].shape)
    THEN Exception("ValueError")
    ELSE LET shape == <<SumBands(arrays)>> \o Tail(arrays[1].shape)
         IN  Array(PromoteAll(arrays), shape,
                   [i \in Indices(shape) |->
                       LET at == Locate(arrays, 1, i[1])
                       IN  arrays[at[1]].px[<<at[2]>> \o Tail(i)]])

\* {}
EmptyDict == <<>>

\* The geotransform of a dataset that was given none.
DefaultGeoTransform == <<0, 1, 0, 0, 0, 1>>

(***************************************************************************)
(* Strings are sequences of characters.                                    *)
(***************************************************************************)
\* The lower-case form of a character, for the letters of the driver names.
LowerChar(c) ==
    CASE c = "G" -> "g"
      [] c = "T" -> "t"
      [] c = "M" -> "m"
      [] c = "E" -> "e"
      [] OTHER -> c

\* str.lower()
lower(s) == [i \in 1..Len(s) |-> LowerChar(s[i])]

\* The last position of character ch in s, 0 when there is none.
rfind(s, ch) ==
    IF \E i \in 1..Len(s) : s[i] = ch
    THEN CHOOSE i \in 1..Len(s) :
             /\ s[i] = ch
             /\ \A j \in (i + 1)..Len(s) : s[j] # ch
    ELSE 0

\* os.path.split(path)[1]
basename(path) == SubSeq(path, rfind(path, "/") + 1, Len(path))

\* os.path.splitext(name)[0]: the part before the last dot, a dot that only
\* dots precede being no extension separator.
splitext_root(name) ==
    LET d == rfind(name, ".")
    IN  IF d > 0 /\ \E j \in 1..(d - 1) : name[j] # "."
        THEN SubSeq(name, 1, d - 1)
        ELSE name

(***************************************************************************)
(* The raster library (gdal, gdal_array), as image.py uses it.             *)
(***************************************************************************)
GTiff == <<"G", "T", "i", "f", "f">>
MEM == <<"M", "E", "M">>

\* gdal.GetDriverByName(name): names match whatever their case; an unknown
\* name gives None.
GetDriverByName(name) ==
    IF lower(name) = lower(GTiff) THEN [t |-> "Driver", name |-> GTiff]
    ELSE IF lower(name) = lower(MEM) THEN [t |-> "Driver", name |-> MEM]
    ELSE None

\* gdal_array.NumericTypeCodeToGDALTypeCode(dtype): None when the raster
\* library has no type for the dtype, as for int64.
NumericTypeCodeToGDALTypeCode(dtype) ==
    CASE dtype = "uint8" -> "GDT_Byte"
      [] dtype = "float32" -> "GDT_Float32"
      [] dtype = "float64" -> "GDT_Float64"
      [] OTHER -> "None"

\* The dtype of the array ReadAsArray returns for a band type.
GDALTypeCodeToNumericTypeCode(gdt) ==
    CASE gdt = "GDT_Byte" -> "uint8"
      [] gdt = "GDT_Float32" -> "float32"
      [] OTHER -> "float64"

\* The significand of a 32-bit float holds 24 bits.
Float32Exact == 16777216

\* An integer stored as a 32-bit float: exact up to 2^24 in magnitude;
\* between 2^24 and 2^25 the nearest even integer, a tie going to the
\* multiple of 4.
RoundFloat32(v) ==
    LET a == IF v < 0 THEN -v ELSE v
        r == IF a <= Float32Exact \/ a % 2 = 0 THEN a
             ELSE IF (a + 1) % 4 = 0 THEN a + 1
             ELSE a - 1
    IN  IF v < 0 THEN -r ELSE r

\* A value written into a band of type gdt.
CastTo(gdt, v) ==
    CASE gdt = "GDT_Float32" -> RoundFloat32(v)
      [] gdt = "GDT_Byte" -> IF v < 0 THEN 0 ELSE IF v > 255 THEN 255 ELSE v
      [] OTHER -> v

\* driver.Create(path, xsize, ysize, bands, datatype): bands of zeros, no
\* georeferencing, no tags.
Create(driver, path, xsize, ysize, count, gdt) ==
    [t |-> "Dataset", driver |-> driver.name, xsize |-> xsize, ysize |-> ysize,
     count |-> count, gdt |-> gdt,
     bands |-> [b \in 1..count |->
                   [i \in Indices(<<ysize, xsize>>) |-> 0]],
     geotransform |-> DefaultGeoTransform, projection |-> <<>>,
     gcps |-> <<>>, gcp_projection |-> <<>>,
     meta |-> EmptyDict, band_meta |-> [b \in 1..count |-> EmptyDict],
     calls |-> <<>>]

\* dataset.GetRasterBand(band).WriteArray(array2d)
WriteArray(ds, band, a) ==
    [ds EXCEPT !.bands[band] = [i \in Indices(<<ds.ysize, ds.xsize>>) |->
                                   CastTo(ds.gdt, a.px[i])],
               !.calls = Append(@, "WriteArray")]

SetGeoTransform(ds, gt) ==
    [ds EXCEPT !.geotransform = gt, !.calls = Append(@, "SetGeoTransform")]

SetProjection(ds, proj) ==
    [ds EXCEPT !.projection = proj, !.calls = Append(@, "SetProjection")]

SetGCPs(ds, gcps, gcpproj) ==
    [ds EXCEPT !.gcps = gcps, !.gcp_projection = gcpproj,
               !.calls = Append(@, "SetGCPs")]

SetMetadata(ds, meta) ==
    [ds EXCEPT !.meta = meta, !.calls = Append(@, "SetMetadata")]

\* dataset.ReadAsArray(): a dataset of one band gives an array of rank 2.
ReadAsArray(ds) ==
    LET dtype == GDALTypeCodeToNumericTypeCode(ds.gdt)
    IN  IF ds.count = 1
        THEN Array(dtype, <<ds.ysize, ds.xsize>>, ds.bands[1])
        ELSE LET shape == <<ds.count, ds.ysize, ds.xsize>>
             IN  Array(dtype, shape,
                       [i \in Indices(shape) |->
                           ds.bands[i[1] + 1][<<i[2], i[3]>>]])

\* data[band, :, :]
Slice2D(a, band) ==
    LET shape == Tail(a.shape)
    IN  Array(a.dtype, shape, [i \in Indices(shape) |-> a.px[<<band>> \o i]])

\* gdal.Open(path) finds the files that were created; a file may be created
\* at any path but the empty one.
Writable(path) == path # <<>>

(***************************************************************************)
(* class Image                                                             *)
(***************************************************************************)
\* The mapping that `metadata={}` in Image.__init__'s signature creates,
\* once, when the class is defined: the first object of `dicts'.
DefaultMetadata == 1

\* Image.__init__(self, data, name='image', metadata={})
Image__init__(m, data, name, metadata) ==
    LET self == [name |-> IF name.t = "omitted" THEN Str(<<"i", "m", "a", "g", "e">>)
                          ELSE name,
                 metadata |-> IF metadata.t = "omitted" THEN DefaultMetadata
                              ELSE metadata.ref,
                 data |-> data]
    IN  Result([m EXCEPT !.heap = Append(@, self)], ImageRef(Len(m.heap) + 1))

\* print(imageobj): Image.__str__ fails on data of fewer than 3 dimensions.
\* The summary printed is kept as name, shape and dtype; the text of the
\* metadata, cut to 360 characters, is left out.
PrintImage(m, ref) ==
    LET self == m.heap[ref]
    IN  IF self.data.t # "ndarray"
        THEN Result(m, Exception("AttributeError"))
        ELSE IF ndim(self.data) < 3
        THEN Result(m, Exception("! Image data has too few dimensions."))
        ELSE Result([m EXCEPT !.log = Append(@,
                        [ev |-> "print", name |-> self.name,
                         shape |-> self.data.shape, dtype |-> self.data.dtype])],
                    None)

(***************************************************************************)
(* class SelectBands                                                       *)
(***************************************************************************)
\* SelectBands.__init__(self, bands=[0]): a value without __iter__ (an int)
\* becomes a one-element list.
SelectBands__init__(bands) ==
    [cls |-> "SelectBands",
     bands |-> IF bands.t = "omitted" THEN List(<<0>>)
               ELSE IF bands.t = "int" THEN List(<<bands.v>>)
               ELSE bands]

\* SelectBands.transform(self, pin)
SelectBands_transform(self, m, pin) ==
    IF pin.t # "Image"
    THEN Result(m, Exception("AttributeError"))
    ELSE LET src == m.heap[pin.ref]
             data == IF src.data.t = "ndarray"
                     THEN TakeBands(src.data, self.bands.items)
                     ELSE Exception("TypeError")
         IN  IF IsException(data)
             THEN Result(m, data)
             ELSE Image__init__(m, data, src.name, DictRef(src.metadata))

(***************************************************************************)
(* class MergeToStack                                                      *)
(***************************************************************************)
\* MergeToStack.__init__(self, master=0)
MergeToStack__init__(master) ==
    [cls |-> "MergeToStack",
     master |-> IF master.t = "omitted" THEN 0 ELSE master.v]

\* MergeToStack.transform taking name and metadata from the first input
\* whatever the master index is.
MergeToStackFirstAsMaster(self, m, pin) ==
    LET datalist == [k \in 1..Len(pin.items) |-> m.heap[pin.items[k].ref].data]
        first == m.heap[pin.items[1].ref]
        made == Image__init__(m, None, first.name, DictRef(first.metadata))
        data == concatenate(datalist)
    IN  IF IsException(data)
        THEN Result(made.m, data)
        ELSE Result([made.m EXCEPT !.heap[made.ret.ref].data = data], made.ret)

\* MergeToStack.transform(self, pin)
MergeToStack_transform(self, m, pin) ==
    IF pin.t # "list"
    THEN Result(m, Exception("TypeError"))
    ELSE IF \E k \in 1..Len(pin.items) : pin.items[k].t # "Image"
    THEN Result(m, Exception("AttributeError"))
    ELSE LET datalist == [k \in 1..Len(pin.items) |->
                             m.heap[pin.items[k].ref].data]
             at == NormIndex(self.master, Len(pin.items))
         IN  IF at = -1
             THEN Result(m, Exception("IndexError"))
             ELSE LET master == m.heap[pin.items[at + 1].ref]
                      made == Image__init__(m, None, master.name,
                                            DictRef(master.metadata))
                      data == concatenate(datalist)
                  IN  IF IsException(data)
                      THEN Result(made.m, data)
                      ELSE Result([made.m EXCEPT
                                      !.heap[made.ret.ref].data = data],
                                  made.ret)

(***************************************************************************)
(* class SaveImage                                                         *)
(***************************************************************************)
\* SaveImage.__init__(self, pathstring, driver='GTiff', return_image=True,
\*                    save_projection=True, save_metadata=True)
SaveImage__init__(pathstring, driver, return_image, save_projection, save_metadata) ==
    [cls |-> "SaveImage",
     pathstring |-> pathstring,
     return_image |-> IF return_image.t = "omitted" THEN TRUE
                      ELSE return_image.v,
     save_projection |-> IF save_projection.t = "omitted" THEN TRUE
                         ELSE save_projection.v,
     save_metadata |-> IF save_metadata.t = "omitted" THEN TRUE
                       ELSE save_metadata.v,
     driver |-> IF driver.t = "omitted" THEN Str(GTiff) ELSE driver]

\* WriteBands with an off-by-one in the band index: data band k + 1 goes to
\* output band k + 1, and data band 0 to the last output band.
WriteBandsShifted(ds, data, band) ==
    LET n == data.shape[1]
    IN  [ds EXCEPT !.bands = [b \in 1..n |->
                                 [i \in Indices(<<ds.ysize, ds.xsize>>) |->
                                     CastTo(ds.gdt, data.px[<<b % n>> \o i])]],
                   !.calls = @ \o [b \in 1..n |-> "WriteArray"]]

\* for band in range(pin.data.shape[0]):
\*     dataset.GetRasterBand(band+1).WriteArray(pin.data[band, :, :])
RECURSIVE WriteBands(_, _, _)
WriteBands(ds, data, band) ==
    IF band >= data.shape[1] THEN ds
    ELSE WriteBands(WriteArray(ds, band + 1, Slice2D(data, band)), data,
                    band + 1)

\* The machine once the dataset is as ds: a dataset of the MEM driver lives
\* in memory only, any other is the file at its path.
Stored(m, ds, path) ==
    IF ds.driver = MEM THEN m
    ELSE [m EXCEPT !.disk = (path :> ds) @@ m.disk]

\* WriteGeoreferencing with > where the code has >=.
WriteGeoreferencingStrict(ds, metadata) ==
    IF {"projection_ref", "gcp_projection"} \ DOMAIN metadata # {}
    THEN Exception("KeyError")
    ELSE IF Len(metadata.projection_ref) > Len(metadata.gcp_projection)
    THEN IF "geotransform" \notin DOMAIN metadata
         THEN Exception("KeyError")
         ELSE SetProjection(SetGeoTransform(ds, metadata.geotransform),
                            metadata.projection_ref)
    ELSE IF "gcps" \notin DOMAIN metadata
    THEN Exception("KeyError")
    ELSE SetGCPs(ds, metadata.gcps, metadata.gcp_projection)

\* The georeferencing part of SaveImage.transform: the dataset after it, or
\* the KeyError of a metadata mapping that lacks a key it reads.
WriteGeoreferencing(ds, metadata) ==
    IF {"projection_ref", "gcp_projection"} \ DOMAIN metadata # {}
    THEN Exception("KeyError")
    ELSE IF Len(metadata.projection_ref) >= Len(metadata.gcp_projection)
    THEN IF "geotransform" \notin DOMAIN metadata
         THEN Exception("KeyError")
         ELSE SetProjection(SetGeoTransform(ds, metadata.geotransform),
                            metadata.projection_ref)
    ELSE IF "gcps" \notin DOMAIN metadata
    THEN Exception("KeyError")
    ELSE SetGCPs(ds, metadata.gcps, metadata.gcp_projection)

\* SaveImageReturn with return_image tested before the driver.
SaveImageReturnImageFirst(self, dataset, pin) ==
    IF self.return_image THEN pin
    ELSE IF lower(self.driver.s) = <<"m", "e", "m">> THEN dataset
    ELSE None

\* The value SaveImage.transform returns.
SaveImageReturn(self, dataset, pin) ==
    IF lower(self.driver.s) = <<"m", "e", "m">> THEN dataset
    ELSE IF self.return_image THEN pin
    ELSE None

\* SaveImage.transform(self, pin)
SaveImage_transform(self, m, pin) ==
    LET driver == GetDriverByName(self.driver.s)
    IN  IF pin.t # "Image"
        THEN Result(m, Exception("AttributeError"))
        ELSE
        LET image == m.heap[pin.ref]
            metadata == m.dicts[image.metadata]
            path == self.pathstring.s
        IN  IF image.data.t # "ndarray"
            THEN Result(m, Exception("AttributeError"))
            ELSE
            LET found == NumericTypeCodeToGDALTypeCode(image.data.dtype)
                datatype == IF found = "None" THEN "GDT_Float32" ELSE found
                m1 == IF found = "None"
                      THEN [m EXCEPT !.log = Append(@, [ev |-> "warn"])]
                      ELSE m
            IN  IF driver.t = "None"
                THEN Result(m1, Exception("AttributeError"))
                ELSE IF ndim(image.data) < 3
                THEN Result(m1, Exception("IndexError"))
                ELSE IF driver.name # MEM /\ ~Writable(path)
                THEN Result(m1, Exception("AttributeError"))
                ELSE
                LET ds0 == Create(driver, path, image.data.shape[3],
                                  image.data.shape[2], image.data.shape[1],
                                  datatype)
                    ds1 == WriteBands(ds0, image.data, 0)
                    ds2 == IF self.save_projection
                           THEN WriteGeoreferencing(ds1, metadata)
                           ELSE ds1
                IN  IF IsException(ds2)
                    THEN Result(Stored(m1, ds1, path), ds2)
                    ELSE IF self.save_metadata
                            /\ "meta" \notin DOMAIN metadata
                    THEN Result(Stored(m1, ds2, path), Exception("KeyError"))
                    ELSE
                    LET ds3 == IF self.save_metadata
                               THEN SetMetadata(ds2, metadata.meta)
                               ELSE ds2
                        ds4 == [ds3 EXCEPT !.calls = Append(@, "FlushCache")]
                    IN  Result(Stored(m1, ds4, path),
                               SaveImageReturn(self, ds4, pin))

(***************************************************************************)
(* class LoadImageFromDisk                                                 *)
(***************************************************************************)
\* The metadata mapping load_from_disk builds.
Metadata(gt, proj, gcps, gcpproj, meta, bandmeta) ==
    [geotransform |-> gt, projection_ref |-> proj, gcps |-> gcps,
     gcp_projection |-> gcpproj, meta |-> meta, band_meta |-> bandmeta]

\* LoadImageFromDisk.load_from_disk(self, pathstring, name=None,
\*                                  verbose=False)
load_from_disk(m0, pathstring, name, verbose) ==
    LET m == [m0 EXCEPT !.log = Append(@, [ev |-> "load_from_disk"])]
    IN  IF pathstring.t \notin {"str", "np.str_"}
        THEN Result(m, Exception("TypeError"))
        ELSE IF pathstring.s \notin DOMAIN m.disk
        THEN Result(m, Exception("! Image file not found."))
        ELSE
        LET dataset == m.disk[pathstring.s]
            read == ReadAsArray(dataset)
            data == IF ndim(read) = 2 THEN expand_dims(read) ELSE read
            metadata == Metadata(dataset.geotransform, dataset.projection,
                                 dataset.gcps, dataset.gcp_projection,
                                 dataset.meta,
                                 [band \in 1..dataset.count |->
                                     dataset.band_meta[band]])
            named == IF name.t = "None"
                     THEN Str(splitext_root(basename(pathstring.s)))
                     ELSE name
            m1 == [m EXCEPT !.dicts = Append(@, metadata)]
            made == Image__init__(m1, data, named, DictRef(Len(m1.dicts)))
        IN  IF verbose
            THEN LET printed == PrintImage(made.m, made.ret.ref)
                 IN  IF IsException(printed.ret) THEN printed
                     ELSE Result(printed.m, made.ret)
            ELSE made

(***************************************************************************)
(* class LoadImageFromMemory                                               *)
(***************************************************************************)
\* LoadImageFromMemory.load_from_memory(self, imageobj, name=None,
\*                                      verbose=False)
load_from_memory(m0, imageobj, name, verbose) ==
    LET m == [m0 EXCEPT !.log = Append(@, [ev |-> "load_from_memory"])]
    IN  IF imageobj.t # "Image"
        THEN Result(m, Exception("! Invalid input type in LoadImageFromMemory."))
        ELSE
        LET m1 == IF name.t # "None"
                  THEN [m EXCEPT !.heap[imageobj.ref].name = name]
                  ELSE m
        IN  IF verbose
            THEN LET printed == PrintImage(m1, imageobj.ref)
                 IN  IF IsException(printed.ret) THEN printed
                     ELSE Result(printed.m, imageobj)
            ELSE Result(m1, imageobj)

(***************************************************************************)
(* class LoadImage                                                         *)
(***************************************************************************)
\* LoadImage.__init__(self, imageinput, name=None, verbose=False)
LoadImage__init__(imageinput, name, verbose) ==
    [cls |-> "LoadImage",
     imageinput |-> imageinput,
     name |-> IF name.t = "omitted" THEN None ELSE name,
     verbose |-> IF verbose.t = "omitted" THEN FALSE ELSE verbose.v]

\* LoadImage.process taking whatever is not an Image for a path.
LoadImageProcessNoTypeError(self, m) ==
    IF self.imageinput.t = "Image"
    THEN load_from_memory(m, self.imageinput, self.name, self.verbose)
    ELSE load_from_disk(m, self.imageinput, self.name, self.verbose)

\* LoadImage.process(self)
LoadImage_process(self, m) ==
    IF self.imageinput.t = "Image"
    THEN load_from_memory(m, self.imageinput, self.name, self.verbose)
    ELSE IF self.imageinput.t \in {"str", "np.str_"}
    THEN load_from_disk(m, self.imageinput, self.name, self.verbose)
    ELSE Result(m, Exception("! Invalid input type in LoadImage."))

(***************************************************************************)
(* class Bounds                                                            *)
(***************************************************************************)
\* Bounds.transform with the row and column counts taken from each other's
\* axis.
BoundsAxesSwapped(self, m, pin) ==
    LET image == m.heap[pin.ref]
        metadata == m.dicts[image.metadata]
    IN  IF "geotransform" \notin DOMAIN metadata
        THEN Result(m, Exception("KeyError"))
        ELSE LET gt == metadata.geotransform
                 numrows == image.data.shape[3]
                 numcols == image.data.shape[2]
             IN  Result(m, List(<<gt[1], gt[4] + gt[6] * numrows,
                                  gt[1] + gt[2] * numcols, gt[4]>>))

\* Bounds.transform(self, pin); gt[k] of the code is gt[k + 1] here.
Bounds_transform(self, m, pin) ==
    IF pin.t # "Image"
    THEN Result(m, Exception("AttributeError"))
    ELSE LET image == m.heap[pin.ref]
             metadata == m.dicts[image.metadata]
         IN  IF "geotransform" \notin DOMAIN metadata
             THEN Result(m, Exception("KeyError"))
             ELSE IF image.data.t # "ndarray"
             THEN Result(m, Exception("AttributeError"))
             ELSE IF ndim(image.data) < 3
             THEN Result(m, Exception("IndexError"))
             ELSE LET gt == metadata.geotransform
                      numrows == image.data.shape[2]
                      numcols == image.data.shape[3]
                  IN  Result(m, List(<<gt[1], gt[4] + gt[6] * numrows,
                                       gt[1] + gt[2] * numcols, gt[4]>>))

(***************************************************************************)
(* Pipelines: the segment base class and the composition operator of       *)
(* pipesegment.py, and class Identity.                                     *)
(***************************************************************************)
\* PipeSegment.transform: the base class returns its input.
PipeSegment_transform(self, m, pin) == Result(m, pin)

\* An Identity whose transform returns nothing.
IdentityReturnsNone(self, m, pin) == Result(m, None)

\* class Identity(PipeSegment): pass
Identity_transform(self, m, pin) == PipeSegment_transform(self, m, pin)

\* The execution of one segment on the output of the segment before it: a
\* load segment takes no input.
Transform(self, m, pin) ==
    CASE self.cls = "Identity" -> Identity_transform(self, m, pin)
      [] self.cls = "LoadImage" -> LoadImage_process(self, m)
      [] self.cls = "SaveImage" -> SaveImage_transform(self, m, pin)
      [] self.cls = "MergeToStack" -> MergeToStack_transform(self, m, pin)
      [] self.cls = "SelectBands" -> SelectBands_transform(self, m, pin)
      [] self.cls = "Bounds" -> Bounds_transform(self, m, pin)

\* s1 * s2
Compose(s1, s2) == [cls |-> "Pipeline", first |-> s1, second |-> s2]

RECURSIVE Execute(_, _, _)

\* A composition that runs its second part before its first.
ExecuteSecondFirst(self, m, pin) ==
    IF self.cls = "Pipeline"
    THEN LET out == Execute(self.second, m, pin)
         IN  IF IsException(out.ret) THEN out
             ELSE Execute(self.first, out.m, out.ret)
    ELSE Transform(self, [m EXCEPT !.log = Append(@, [ev |-> "run",
                                                      segment |-> self])], pin)

\* The execution of a pipeline: out = S1.execute(); return S2.transform(out),
\* a failure of S1 ending the run.  Each segment run is noted in the log.
Execute(self, m, pin) ==
    IF self.cls = "Pipeline"
    THEN LET out == Execute(self.first, m, pin)
         IN  IF IsException(out.ret) THEN out
             ELSE Execute(self.second, out.m, out.ret)
    ELSE Transform(self, [m EXCEPT !.log = Append(@, [ev |-> "run",
                                                      segment |-> self])], pin)

(***************************************************************************)
(* Inputs: the arrays, metadata mappings and Images the operations are run *)
(* on.                                                                     *)
(***************************************************************************)
\* A string of n characters ch.
Repeat(ch, n) == [i \in 1..n |-> ch]

\* An array whose elements are all different: element i holds base plus the
\* position of i in row-major order.
Ramp(dtype, shape, base) ==
    Array(dtype, shape,
          [i \in Indices(shape) |->
              base + (i[1] * shape[2] + i[2]) * shape[3] + i[3]])

Shapes ==
    {<<b, r, c>> : b \in 1..MaxBands, r \in 1..MaxRows, c \in 1..MaxCols}

\* Image number k of a test heap: its own name, its own metadata mapping
\* (at address k + 1) and elements no other image of the heap holds.
TestImage(k, shape) ==
    [name |-> Str(Repeat("n", k)), metadata |-> k + 1,
     data |-> Ramp(IF k % 2 = 1 THEN "uint8" ELSE "int64", shape, 50 * k)]

TestMetadata(k) ==
    Metadata(<<k, 1, 0, 0, 0, -1>>, <<"W">>, <<>>, <<>>, EmptyDict,
             <<>>)

TestDicts(n) == <<EmptyDict>> \o [k \in 1..n |-> TestMetadata(k)]

\* What every operation leaves of its call: the operation, the arguments
\* its segment was constructed with, its input, and the heap and the
\* mappings it started from.
Call(op, cfg, pin) ==
    [op |-> op, cfg |-> cfg, pin |-> pin, heap0 |-> heap, dicts0 |-> dicts]

Here == Machine(heap, dicts, disk, log)

Return(r) ==
    /\ heap' = r.m.heap
    /\ dicts' = r.m.dicts
    /\ disk' = r.m.disk
    /\ log' = r.m.log
    /\ ret' = r.ret
    /\ pc' = "done"

(***************************************************************************)
(* SelectBands run on one Image.                                           *)
(***************************************************************************)
BandIndexes == -1..MaxBands

BandLists ==
    UNION {[1..n -> BandIndexes] : n \in 0..MaxSelect}

InitSelectBands ==
    /\ \E shape \in Shapes : heap = <<TestImage(1, shape)>>
    /\ dicts = TestDicts(1)
    /\ disk = <<>>
    /\ log = <<>>
    /\ pc = "ready"
    /\ args = None
    /\ ret = None

RunSelectBands ==
    /\ pc = "ready"
    /\ \E bands \in {PyInt(k) : k \in BandIndexes}
                      \cup {List(l) : l \in BandLists} \cup {Omitted} :
          LET self == SelectBands__init__(bands)
          IN  /\ args' = Call("SelectBands", [bands |-> bands], ImageRef(1))
              /\ Return(SelectBands_transform(self, Here, ImageRef(1)))

SpecSelectBands == InitSelectBands /\ [][RunSelectBands]_vars

\* The list of band indices a SelectBands call was configured with, a bare
\* integer k standing for [k].
GivenBands ==
    IF args.cfg.bands.t = "int" THEN <<args.cfg.bands.v>>
    ELSE args.cfg.bands.items

SelectBandsDone ==
    /\ pc = "done"
    /\ args.op = "SelectBands"
    /\ args.cfg.bands.t \in {"int", "list"}

BandsInRange ==
    \A i \in 1..Len(GivenBands) :
        /\ GivenBands[i] >= 0
        /\ GivenBands[i] < args.heap0[args.pin.ref].data.shape[1]

\* C8: SelectBands with a list L of in-range band indices (a bare integer k
\* as [k]) returns a new Image of rank 3 with Len(L) bands, band i being
\* input band L[i], rows and columns as in the input; [0,1,2] on a 3-band
\* image returns the input's data, [2,1,0] the bands reversed, [0,0] band 0
\* twice; the input Image is as it was.
C8_SelectBandsReindexes ==
    (SelectBandsDone /\ BandsInRange) =>
        LET src == args.heap0[args.pin.ref].data
            L == GivenBands
        IN  /\ ret.t = "Image"
            /\ ret.ref \notin DOMAIN args.heap0
            /\ LET out == heap[ret.ref].data
               IN  /\ out.shape = <<Len(L), src.shape[2], src.shape[3]>>
                   /\ \A i \in 0..(Len(L) - 1) :
                      \A r \in 0..(src.shape[2] - 1) :
                      \A c \in 0..(src.shape[3] - 1) :
                          out.px[<<i, r, c>>] = src.px[<<L[i + 1], r, c>>]
                   /\ (L = <<0, 1, 2>> /\ src.shape[1] = 3) => out = src
                   /\ (L = <<2, 1, 0>> /\ src.shape[1] = 3) =>
                          \A b \in 0..2 :
                          \A r \in 0..(src.shape[2] - 1) :
                          \A c \in 0..(src.shape[3] - 1) :
                              out.px[<<b, r, c>>] = src.px[<<2 - b, r, c>>]
                   /\ L = <<0, 0>> =>
                          /\ out.shape[1] = 2
                          /\ \A r \in 0..(src.shape[2] - 1) :
                             \A c \in 0..(src.shape[3] - 1) :
                                 /\ out.px[<<0, r, c>>] = src.px[<<0, r, c>>]
                                 /\ out.px[<<1, r, c>>] = src.px[<<0, r, c>>]
            /\ heap[args.pin.ref] = args.heap0[args.pin.ref]

C8_Witness ==
    /\ SelectBandsDone
    /\ BandsInRange
    /\ GivenBands = <<2, 1, 0>>
    /\ args.heap0[args.pin.ref].data.shape = <<3, 2, 2>>
    /\ ret.t = "Image"
    /\ heap[ret.ref].data.px[<<0, 1, 1>>] # heap[ret.ref].data.px[<<2, 1, 1>>]

(***************************************************************************)
(* MergeToStack run on a list of Images.                                   *)
(***************************************************************************)
InitMergeToStack ==
    /\ \E n \in 1..MaxImages : \E shapes \in [1..n -> Shapes] :
          /\ heap = [k \in 1..n |-> TestImage(k, shapes[k])]
          /\ dicts = TestDicts(n)
    /\ disk = <<>>
    /\ log = <<>>
    /\ pc = "ready"
    /\ args = None
    /\ ret = None

RunMergeToStack ==
    /\ pc = "ready"
    /\ \E master \in {PyInt(k) : k \in -1..MaxImages} \cup {Omitted} :
          LET self == MergeToStack__init__(master)
              pin == List([k \in 1..Len(heap) |-> ImageRef(k)])
          IN  /\ args' = Call("MergeToStack", [master |-> master], pin)
              /\ Return(MergeToStack_transform(self, Here, pin))

SpecMergeToStack == InitMergeToStack /\ [][RunMergeToStack]_vars

\* The master index a MergeToStack call was configured with (0 by default).
GivenMaster ==
    IF args.cfg.master.t = "omitted" THEN 0 ELSE args.cfg.master.v

\* Input number k (from 1) of the running call, as it was when the call began.
InputImage(k) == args.heap0[args.pin.items[k].ref]

RECURSIVE BandsBefore(_)
BandsBefore(k) ==
    IF k = 1 THEN 0
    ELSE BandsBefore(k - 1) + InputImage(k - 1).data.shape[1]

MergeDone ==
    /\ pc = "done"
    /\ args.op = "MergeToStack"

MergeInputsValid ==
    /\ \A k \in 1..Len(args.pin.items) :
          Tail(InputImage(k).data.shape) = Tail(InputImage(1).data.shape)
    /\ GivenMaster >= 0
    /\ GivenMaster < Len(args.pin.items)

\* C9: MergeToStack on N Images of equal rows and columns returns one Image
\* with sum(b_i) bands, the bands of input 0 first in their order, then
\* those of input 1, and so on; its name and metadata are those of the
\* input at the master index (default 0); no input Image is modified.
C9_MergeConcatenatesBands ==
    (MergeDone /\ MergeInputsValid) =>
        LET n == Len(args.pin.items)
        IN  /\ ret.t = "Image"
            /\ ret.ref \notin DOMAIN args.heap0
            /\ LET out == heap[ret.ref]
               IN  /\ out.data.shape[1] = BandsBefore(n + 1)
                   /\ Tail(out.data.shape) = Tail(InputImage(1).data.shape)
                   /\ \A k \in 1..n :
                      \A i \in Indices(InputImage(k).data.shape) :
                          out.data.px[<<BandsBefore(k) + i[1], i[2], i[3]>>]
                              = InputImage(k).data.px[i]
                   /\ out.name = InputImage(GivenMaster + 1).name
                   /\ out.metadata = InputImage(GivenMaster + 1).metadata
            /\ \A a \in DOMAIN args.heap0 : heap[a] = args.heap0[a]
            /\ dicts = args.dicts0

C9_Witness ==
    /\ MergeDone
    /\ MergeInputsValid
    /\ Len(args.pin.items) = 2
    /\ InputImage(1).data.shape[1] = 2
    /\ InputImage(2).data.shape[1] = 1
    /\ GivenMaster = 1
    /\ ret.t = "Image"
    /\ heap[ret.ref].data.shape[1] = 3
    /\ heap[ret.ref].name = Str(<<"n", "n">>)

(***************************************************************************)
(* Bounds run on one Image.                                                *)
(***************************************************************************)
MaxPixelSize == 2

GeoTransforms ==
    {<<gt0, gt1, gt2, gt3, gt4, gt5>> :
        gt0 \in {-3, 100}, gt1 \in -MaxPixelSize..MaxPixelSize,
        gt2 \in {0, 7}, gt3 \in {0, 200}, gt4 \in {0, 5},
        gt5 \in -MaxPixelSize..MaxPixelSize}

BoundsShapes ==
    {<<1, r, c>> : r \in (1..MaxRows) \cup {10}, c \in (1..MaxCols) \cup {5}}

InitBounds ==
    /\ \E shape \in BoundsShapes : heap = <<TestImage(1, shape)>>
    /\ \/ \E gt \in GeoTransforms :
             dicts = <<EmptyDict,
                       Metadata(gt, <<"W">>, <<>>, <<>>, EmptyDict, <<>>)>>
       \/ dicts = <<EmptyDict, EmptyDict>>
    /\ disk = <<>>
    /\ log = <<>>
    /\ pc = "ready"
    /\ args = None
    /\ ret = None

RunBounds ==
    /\ pc = "ready"
    /\ args' = Call("Bounds", None, ImageRef(1))
    /\ Return(Bounds_transform([cls |-> "Bounds"], Here, ImageRef(1)))

SpecBounds == InitBounds /\ [][RunBounds]_vars

BoundsDone ==
    /\ pc = "done"
    /\ args.op = "Bounds"
    /\ "geotransform" \in DOMAIN args.dicts0[args.heap0[args.pin.ref].metadata]

\* C10: Bounds returns [gt0, gt3 + gt5*rows, gt0 + gt1*cols, gt3] whatever
\* gt2 and gt4 are; for (100, 2, 0, 200, 0, -2) and 10 rows by 5 columns it
\* returns [100, 180, 110, 200]; for gt1 > 0 and gt5 < 0, xmin <= xmax and
\* ymin <= ymax.
C10_BoundsFormula ==
    BoundsDone =>
        LET image == args.heap0[args.pin.ref]
            gt == args.dicts0[image.metadata].geotransform
            rows == image.data.shape[2]
            cols == image.data.shape[3]
        IN  /\ ret.t = "list"
            /\ ret.items = <<gt[1], gt[4] + gt[6] * rows,
                             gt[1] + gt[2] * cols, gt[4]>>
            /\ (gt = <<100, 2, 0, 200, 0, -2>> /\ rows = 10 /\ cols = 5) =>
                   ret.items = <<100, 180, 110, 200>>
            /\ (gt[2] > 0 /\ gt[6] < 0) =>
                   /\ ret.items[1] <= ret.items[3]
                   /\ ret.items[2] <= ret.items[4]

C10_Witness ==
    /\ BoundsDone
    /\ args.dicts0[2].geotransform = <<100, 2, 7, 200, 5, -2>>
    /\ Tail(args.heap0[1].data.shape) = <<10, 5>>
    /\ ret = List(<<100, 180, 110, 200>>)

(***************************************************************************)
(* SaveImage run on one Image, and the file it wrote loaded back.          *)
(***************************************************************************)
SaveArrays ==
    {Ramp("uint8", shape, 0) : shape \in Shapes}
        \cup {Ramp("int64", shape, 7) : shape \in Shapes}
        \cup {Ramp("int64", shape, Float32Exact - 1) : shape \in Shapes}

SaveMetadata ==
    {Metadata(gt, Repeat("W", p), IF g = 0 THEN <<>> ELSE <<"gcp">>,
              Repeat("G", g), [TAG |-> "v"], <<>>) :
        gt \in {DefaultGeoTransform, <<100, 2, 0, 200, 0, -2>>},
        p \in 0..MaxProjLen, g \in 0..MaxProjLen}
        \cup {EmptyDict}

SavePaths == {<<"d", "/", "a", ".", "t">>, <<>>}

SaveDrivers ==
    {Str(GTiff), Str(MEM), Str(<<"m", "e", "m">>), Str(<<"M", "e", "m">>),
     Str(<<"x">>)}

SaveConfigs ==
    {[pathstring |-> Str(path), driver |-> driver, return_image |-> PyBool(ri),
      save_projection |-> PyBool(sp), save_metadata |-> PyBool(sm)] :
        path \in SavePaths, driver \in SaveDrivers, ri \in BOOLEAN,
        sp \in BOOLEAN, sm \in BOOLEAN}
        \cup {[pathstring |-> Str(path), driver |-> Omitted,
               return_image |-> Omitted, save_projection |-> Omitted,
               save_metadata |-> Omitted] : path \in SavePaths}

InitSave ==
    /\ \E data \in SaveArrays :
          heap = <<[name |-> Str(<<"n">>), metadata |-> 2, data |-> data]>>
    /\ \E metadata \in SaveMetadata : dicts = <<EmptyDict, metadata>>
    /\ disk = <<>>
    /\ log = <<>>
    /\ pc = "ready"
    /\ args = None
    /\ ret = None

RunSaveImage ==
    /\ pc = "ready"
    /\ \E cfg \in SaveConfigs :
          LET self == SaveImage__init__(cfg.pathstring, cfg.driver,
                                        cfg.return_image, cfg.save_projection,
                                        cfg.save_metadata)
          IN  /\ args' = Call("SaveImage", cfg, ImageRef(1))
              /\ Return(SaveImage_transform(self, Here, ImageRef(1)))

\* LoadImageFromDisk(path)() on the path a SaveImage call has just written.
RunLoadBack ==
    /\ pc = "done"
    /\ args.op = "SaveImage"
    /\ ~IsException(ret)
    /\ args.cfg.pathstring.s \in DOMAIN disk
    /\ args' = [op |-> "load_from_disk", pin |-> None,
                cfg |-> [pathstring |-> args.cfg.pathstring, name |-> None,
                         verbose |-> FALSE],
                heap0 |-> heap, dicts0 |-> dicts, before |-> args]
    /\ Return(load_from_disk(Here, args.cfg.pathstring, None, FALSE))

NextSave == RunSaveImage \/ RunLoadBack

SpecSave == InitSave /\ [][NextSave]_vars

\* A SaveImage call that returned without an exception.
SaveDone ==
    /\ pc = "done"
    /\ args.op = "SaveImage"
    /\ ~IsException(ret)

\* The options a SaveImage call runs with, an omitted one at its default.
SaveProjectionSet ==
    args.cfg.save_projection.t = "omitted" \/ args.cfg.save_projection.v

ReturnImageSet ==
    args.cfg.return_image.t = "omitted" \/ args.cfg.return_image.v

InMemoryDriver ==
    /\ args.cfg.driver.t = "str"
    /\ args.cfg.driver.s \in
          {<<"M", "E", "M">>, <<"m", "e", "m">>, <<"M", "e", "m">>}

\* The dataset a finished SaveImage call created.
SavedDataset ==
    IF InMemoryDriver THEN ret ELSE disk[args.cfg.pathstring.s]

SavedMetadata == args.dicts0[args.heap0[args.pin.ref].metadata]

WroteAffine ==
    /\ \E i \in DOMAIN SavedDataset.calls :
          SavedDataset.calls[i] = "SetGeoTransform"
    /\ \E i \in DOMAIN SavedDataset.calls :
          SavedDataset.calls[i] = "SetProjection"
    /\ SavedDataset.geotransform = SavedMetadata.geotransform
    /\ SavedDataset.projection = SavedMetadata.projection_ref

WroteNoAffine ==
    \A i \in DOMAIN SavedDataset.calls :
        SavedDataset.calls[i] \notin {"SetGeoTransform", "SetProjection"}

WroteGCPs ==
    /\ \E i \in DOMAIN SavedDataset.calls : SavedDataset.calls[i] = "SetGCPs"
    /\ SavedDataset.gcps = SavedMetadata.gcps
    /\ SavedDataset.gcp_projection = SavedMetadata.gcp_projection

WroteNoGCPs ==
    \A i \in DOMAIN SavedDataset.calls : SavedDataset.calls[i] # "SetGCPs"

\* C1: a SaveImage with save_projection set writes exactly one scheme: the
\* geotransform and projection_ref, and no GCPs, when projection_ref is at
\* least as long as gcp_projection; the GCPs with gcp_projection, and no
\* geotransform, when gcp_projection is strictly longer.  With
\* save_projection unset it writes neither.
C1_OneGeoreferencingScheme ==
    SaveDone =>
        /\ (SaveProjectionSet
              /\ Len(SavedMetadata.projection_ref)
                    >= Len(SavedMetadata.gcp_projection))
               => (WroteAffine /\ WroteNoGCPs)
        /\ (SaveProjectionSet
              /\ Len(SavedMetadata.projection_ref)
                    < Len(SavedMetadata.gcp_projection))
               => (WroteGCPs /\ WroteNoAffine)
        /\ ~SaveProjectionSet => (WroteNoAffine /\ WroteNoGCPs)

C1_Witness ==
    /\ SaveDone
    /\ SaveProjectionSet
    /\ Len(SavedMetadata.projection_ref) = 1
    /\ Len(SavedMetadata.gcp_projection) = 1
    /\ SavedMetadata.geotransform # DefaultGeoTransform
    /\ WroteAffine
    /\ WroteNoGCPs

\* C7: SaveImage returns the dataset it created when the driver is the
\* in-memory driver, whatever return_image is; otherwise the Image it was
\* given when return_image is set, that Image's data, name and metadata
\* being as before the save; otherwise None.
C7_SaveImageReturnValue ==
    SaveDone =>
        /\ InMemoryDriver =>
               /\ ret.t = "Dataset"
               /\ ret.count = args.heap0[args.pin.ref].data.shape[1]
        /\ (~InMemoryDriver /\ ReturnImageSet) =>
               /\ ret = args.pin
               /\ heap[ret.ref] = args.heap0[args.pin.ref]
               /\ dicts[heap[ret.ref].metadata] = SavedMetadata
        /\ (~InMemoryDriver /\ ~ReturnImageSet) => ret = None

C7_Witness ==
    /\ SaveDone
    /\ InMemoryDriver
    /\ args.cfg.driver.s = <<"M", "e", "m">>
    /\ ~ReturnImageSet
    /\ ret.t = "Dataset"

\* A file written by SaveImage with its default options from an Image with
\* affine georeferencing only, and loaded back.
RoundTripDone ==
    /\ pc = "done"
    /\ args.op = "load_from_disk"
    /\ ~IsException(ret)
    /\ args.before.cfg.driver.t = "omitted"
    /\ args.before.cfg.return_image.t = "omitted"
    /\ args.before.cfg.save_projection.t = "omitted"
    /\ args.before.cfg.save_metadata.t = "omitted"
    /\ dicts[2].gcp_projection = <<>>
    /\ dicts[2].gcps = <<>>

Original == heap[1]

Loaded == heap[ret.ref]

SameGeoreferencing ==
    /\ dicts[Loaded.metadata].geotransform
          = dicts[Original.metadata].geotransform
    /\ dicts[Loaded.metadata].projection_ref
          = dicts[Original.metadata].projection_ref

\* The dtypes the raster library has a type code for.
NativeDtypes == {"uint8", "float32", "float64"}

\* C4 as stated: the Image loaded back has the data of the original, band
\* by band in the same order, and its geotransform and projection_ref.
C4_RoundTripExact ==
    RoundTripDone =>
        /\ Loaded.data.shape = Original.data.shape
        /\ \A i \in Indices(Original.data.shape) :
              Loaded.data.px[i] = Original.data.px[i]
        /\ SameGeoreferencing

\* C4, amended: the Image loaded back has the shape of the original and its
\* geotransform and projection_ref; its data equals the original's band by
\* band in the same order when the dtype has a native type code or every
\* element is an integer of magnitude at most 2^24; for other data each
\* element is the original's at the same band, row and column, stored as a
\* 32-bit float, which is at most 1 away.
C4_RoundTripWithinPrecision ==
    RoundTripDone =>
        /\ Loaded.data.shape = Original.data.shape
        /\ \A i \in Indices(Original.data.shape) :
              LET was == Original.data.px[i]
                  is == Loaded.data.px[i]
              IN  /\ (Original.data.dtype \in NativeDtypes
                        \/ (was <= Float32Exact /\ -was <= Float32Exact))
                         => is = was
                  /\ is - was \in {-1, 0, 1}
        /\ SameGeoreferencing

C4_Witness ==
    /\ RoundTripDone
    /\ Original.data.shape = <<2, 2, 2>>
    /\ Original.data.dtype = "uint8"
    /\ Loaded.data = Original.data
    /\ dicts[Original.metadata].geotransform = <<100, 2, 0, 200, 0, -2>>
    /\ dicts[Original.metadata].projection_ref = <<"W", "W">>
    /\ SameGeoreferencing

(***************************************************************************)
(* LoadImage run on inputs of several types.                               *)
(***************************************************************************)
SavedPath == <<"d", "/", "a", ".", "t">>
MissingPath == <<"b", ".", "t">>

\* The disk after SaveImage(SavedPath) was run on Image 1 of heap h.
DiskWithSavedImage(h, d) ==
    SaveImage_transform(
        SaveImage__init__(Str(SavedPath), Omitted, Omitted, Omitted, Omitted),
        Machine(h, d, <<>>, <<>>), ImageRef(1)).m.disk

LoadInputs ==
    {ImageRef(1), Str(SavedPath), NpStr(SavedPath), Str(MissingPath),
     NpStr(MissingPath), PyInt(3), None, List(<<>>),
     [t |-> "bytes", s |-> SavedPath], [t |-> "PosixPath", s |-> SavedPath],
     [t |-> "ImageSubclass", ref |-> 1]}

InitLoad ==
    /\ \E shape \in Shapes : heap = <<TestImage(1, shape)>>
    /\ dicts = TestDicts(1)
    /\ disk \in {<<>>, DiskWithSavedImage(heap, dicts)}
    /\ log = <<>>
    /\ pc = "ready"
    /\ args = None
    /\ ret = None

RunLoadImage ==
    /\ pc = "ready"
    /\ \E imageinput \in LoadInputs :
       \E name \in {Omitted, None, Str(<<"x">>)} :
       \E verbose \in {Omitted, PyBool(TRUE), PyBool(FALSE)} :
          LET self == LoadImage__init__(imageinput, name, verbose)
          IN  /\ args' = Call("LoadImage",
                              [imageinput |-> imageinput, name |-> name,
                               verbose |-> verbose], None)
              /\ Return(LoadImage_process(self, Here))

SpecLoad == InitLoad /\ [][RunLoadImage]_vars

LoadDone ==
    /\ pc = "done"
    /\ args.op = "LoadImage"

\* How many times a loader was entered during the call.
Entered(loader) == Cardinality({i \in DOMAIN log : log[i].ev = loader})

\* C5: LoadImage.process calls load-from-disk exactly when its input is a
\* str or np.str_, load-from-memory exactly when it is an Image, and for an
\* input of any other type fails with an error, calling neither loader and
\* producing no Image.
C5_LoadDispatch ==
    LoadDone =>
        LET kind == args.cfg.imageinput.t
        IN  /\ Entered("load_from_disk")
                  = IF kind \in {"str", "np.str_"} THEN 1 ELSE 0
            /\ Entered("load_from_memory") = IF kind = "Image" THEN 1 ELSE 0
            /\ kind \notin {"str", "np.str_", "Image"} =>
                   /\ IsException(ret)
                   /\ heap = args.heap0
                   /\ dicts = args.dicts0
            /\ (kind = "Image" /\ ~IsException(ret)) =>
                   ret = args.cfg.imageinput
            /\ (kind \in {"str", "np.str_"} /\ ~IsException(ret)) =>
                   /\ ret.t = "Image"
                   /\ ret.ref \notin DOMAIN args.heap0

C5_Witness ==
    /\ LoadDone
    /\ args.cfg.imageinput = NpStr(SavedPath)
    /\ Entered("load_from_disk") = 1
    /\ ret.t = "Image"
    /\ heap[ret.ref].name = Str(<<"a">>)
    /\ heap[ret.ref].data = heap[1].data

(***************************************************************************)
(* Images constructed with and without a metadata argument, and their      *)
(* metadata mappings written through them.                                 *)
(***************************************************************************)
MetadataKeys == {"k1", "k2"}

\* Image(data), Image(data, name), Image(data, name, {}) and
\* Image(data, name, other.metadata)
NewImage ==
    /\ Len(heap) < MaxImages + 1
    /\ \E name \in {Omitted, Str(<<"x">>)} :
       \E how \in {[kind |-> "default", of |-> 0], [kind |-> "fresh", of |-> 0]}
                  \cup {[kind |-> "of", of |-> i] : i \in DOMAIN heap} :
          LET data == Ramp("uint8", <<1, 1, 1>>, 0)
              m == IF how.kind = "fresh"
                   THEN [Here EXCEPT !.dicts = Append(@, EmptyDict)]
                   ELSE Here
              metadata == IF how.kind = "default" THEN Omitted
                          ELSE IF how.kind = "fresh" THEN DictRef(Len(m.dicts))
                          ELSE DictRef(heap[how.of].metadata)
              made == Image__init__(m, data, name, metadata)
          IN  /\ args' = Call("Image", [name |-> name, metadata |-> metadata],
                              None)
              /\ Return(Result([made.m EXCEPT !.log = Append(@,
                                    [ev |-> "Image", image |-> made.ret.ref,
                                     defaulted |-> how.kind = "default"])],
                               made.ret))

\* The images metadata mappings were written through so far.
Writes == {i \in DOMAIN log : log[i].ev = "setitem"}

\* image.metadata[key] = value
SetMetadataItem ==
    /\ Cardinality(Writes) < MaxMutations
    /\ \E i \in DOMAIN heap : \E key \in MetadataKeys :
          /\ dicts' = [dicts EXCEPT ![heap[i].metadata] = (key :> i) @@ @]
          /\ log' = Append(log, [ev |-> "setitem", image |-> i])
          /\ args' = Call("setitem", [key |-> key], ImageRef(i))
          /\ ret' = None
          /\ pc' = "done"
          /\ UNCHANGED <<heap, disk>>

InitImage ==
    /\ heap = <<>>
    /\ dicts = <<EmptyDict>>
    /\ disk = <<>>
    /\ log = <<>>
    /\ pc = "ready"
    /\ args = None
    /\ ret = None

NextImage == NewImage \/ SetMetadataItem

SpecImage == InitImage /\ [][NextImage]_vars

\* The Images constructed without a metadata argument.
Defaulted ==
    {log[i].image : i \in {j \in DOMAIN log :
                              log[j].ev = "Image" /\ log[j].defaulted}}

WrittenThrough == {log[i].image : i \in Writes}

\* C6: two Images constructed without a metadata argument hold distinct
\* mappings, and when metadata was written through one of them only, the
\* other's metadata is still empty.
C6_FreshDefaultMetadata ==
    \A a \in Defaulted : \A b \in Defaulted \ {a} :
        /\ heap[a].metadata # heap[b].metadata
        /\ WrittenThrough \subseteq {a} => dicts[heap[b].metadata] = EmptyDict

(***************************************************************************)
(* Pipelines of three segments, grouped both ways, and pipelines with      *)
(* Identity.                                                               *)
(***************************************************************************)
Identity == [cls |-> "Identity"]

Segments ==
    {Identity,
     [cls |-> "Bounds"],
     SelectBands__init__(Omitted),
     SelectBands__init__(List(<<1, 0>>)),
     SelectBands__init__(PyInt(MaxBands)),
     LoadImage__init__(ImageRef(1), Str(<<"x">>), Omitted),
     LoadImage__init__(Str(SavedPath), Omitted, Omitted),
     SaveImage__init__(Str(SavedPath), Omitted, Omitted, Omitted, Omitted),
     SaveImage__init__(Str(<<>>), Str(MEM), Omitted, Omitted, Omitted)}

InitPipe ==
    /\ \E shape \in Shapes : heap = <<TestImage(1, shape)>>
    /\ dicts = TestDicts(1)
    /\ disk = <<>>
    /\ log = <<>>
    /\ pc = "ready"
    /\ args = None
    /\ ret = None

\* ((A * B) * C)(pin), with what (A * (B * C))(pin) gives from the same
\* state.
RunChain ==
    /\ pc = "ready"
    /\ \E A \in Segments : \E B \in Segments : \E C \in Segments :
          /\ args' = [op |-> "Chain", segments |-> <<A, B, C>>,
                      pin |-> ImageRef(1), heap0 |-> heap, dicts0 |-> dicts,
                      regrouped |-> Execute(Compose(A, Compose(B, C)), Here,
                                            ImageRef(1))]
          /\ Return(Execute(Compose(Compose(A, B), C), Here, ImageRef(1)))

\* (S * Identity)(pin), with what S(pin), (Identity * S)(pin) and
\* Identity(pin) give from the same state.
RunWithIdentity ==
    /\ pc = "ready"
    /\ \E S \in Segments :
          /\ args' = [op |-> "WithIdentity", segment |-> S,
                      pin |-> ImageRef(1), heap0 |-> heap, dicts0 |-> dicts,
                      alone |-> Execute(S, Here, ImageRef(1)),
                      after |-> Execute(Compose(Identity, S), Here,
                                        ImageRef(1)),
                      identity |-> Execute(Identity, Here, ImageRef(1))]
          /\ Return(Execute(Compose(S, Identity), Here, ImageRef(1)))

NextPipe == RunChain \/ RunWithIdentity

SpecPipe == InitPipe /\ [][NextPipe]_vars

\* What a run leaves behind, the log of segment runs aside.
Outcome(r) ==
    [heap |-> r.m.heap, dicts |-> r.m.dicts, disk |-> r.m.disk, ret |-> r.ret]

\* The segments run, in order.
RunsOf(l) ==
    LET at == {i \in DOMAIN l : l[i].ev = "run"}
        nth(k) == CHOOSE i \in at : Cardinality({j \in at : j < i}) = k - 1
    IN  [k \in 1..Cardinality(at) |-> l[nth(k)].segment]

\* C2: S composed with Identity returns what S alone returns, Identity
\* composed before S returns S(input), and Identity returns its input.
C2_IdentityLaw ==
    (pc = "done" /\ args.op = "WithIdentity") =>
        /\ Outcome(Result(Here, ret)) = Outcome(args.alone)
        /\ Outcome(args.after) = Outcome(args.alone)
        /\ args.identity.ret = args.pin
        /\ args.identity.m.heap = args.heap0
        /\ args.identity.m.dicts = args.dicts0

C2_Witness ==
    /\ pc = "done"
    /\ args.op = "WithIdentity"
    /\ args.segment = SelectBands__init__(List(<<1, 0>>))
    /\ ret.t = "Image"
    /\ ret = args.alone.ret
    /\ heap[ret.ref].data # heap[1].data
    /\ RunsOf(log) = <<args.segment, Identity>>

\* The three segments of a chain applied one after the other, a failure
\* ending the run.
InSequence ==
    LET m0 == Machine(args.heap0, args.dicts0, <<>>, <<>>)
        r1 == Transform(args.segments[1], m0, args.pin)
        r2 == IF IsException(r1.ret) THEN r1
              ELSE Transform(args.segments[2], r1.m, r1.ret)
    IN  IF IsException(r2.ret) THEN r2
        ELSE Transform(args.segments[3], r2.m, r2.ret)

\* C3: (A * B) * C and A * (B * C) run the segments in the same order A, B,
\* C and return the same output: that of A, B and C applied in sequence.
C3_Associativity ==
    (pc = "done" /\ args.op = "Chain") =>
        /\ args.regrouped = Result(Here, ret)
        /\ Outcome(Result(Here, ret)) = Outcome(InSequence)
        /\ RunsOf(log) = SubSeq(args.segments, 1, Len(RunsOf(log)))
        /\ ~IsException(ret) => RunsOf(log) = args.segments

C3_Witness ==
    /\ pc = "done"
    /\ args.op = "Chain"
    /\ args.segments[1].cls = "LoadImage"
    /\ args.segments[2] = SelectBands__init__(List(<<1, 0>>))
    /\ args.segments[3].cls = "Bounds"
    /\ ret.t = "list"
    /\ RunsOf(log) = args.segments
    /\ Len(heap) = 2

====
